---------------------------- MODULE Spec2Model ----------------------------
(***************************************************************************)
(* A model of the v1 PASETO providers of src/protocol/v1.ts: the one-shot  *)
(* key slot of V1Local and V1Public (generateKey) and the sign / verify    *)
(* engine of V1Public, down to the bytes of the wire format.               *)
(*                                                                         *)
(* Strings are sequences of Unicode code points, byte buffers sequences of *)
(* 0..255.  The helpers v1.ts imports (checkKeyPurpose, PAE, packer,       *)
(* _parse_raw_token, the validators) are not among the source files; they  *)
(* are modelled from the specification's sections 4.2 to 4.5 and 7.  The   *)
(* engine's primitives (crypto.subtle.generateKey / sign / verify) are     *)
(* modelled as an ideal signature scheme.                                  *)
(***************************************************************************)
EXTENDS Integers, Sequences, FiniteSets, TLC

(***************************************************************************)
(* Text and bytes                                                          *)
(***************************************************************************)

\* "." , the separator of the wire format
Dot == 46

RECURSIVE Flatten(_)
\* the concatenation of a sequence of sequences
Flatten(ss) == IF ss = <<>> THEN <<>> ELSE Head(ss) \o Flatten(Tail(ss))

\* TextEncoder.encode of one code point (UTF-8; a lone surrogate is written
\* as U+FFFD)
Utf8OfCodePoint(cp) ==
  IF cp < 128 THEN <<cp>>
  ELSE IF cp < 2048 THEN <<192 + cp \div 64, 128 + (cp % 64)>>
  ELSE IF cp >= 55296 /\ cp <= 57343 THEN <<239, 191, 189>>
  ELSE IF cp < 65536
       THEN <<224 + cp \div 4096, 128 + ((cp \div 64) % 64), 128 + (cp % 64)>>
  ELSE <<240 + cp \div 262144, 128 + ((cp \div 4096) % 64),
         128 + ((cp \div 64) % 64), 128 + (cp % 64)>>

\* TextEncoder.encode
Utf8Encode(s) == Flatten([i \in 1..Len(s) |-> Utf8OfCodePoint(s[i])])

IsCont(b, lo, hi) == b >= lo /\ b <= hi

\* for a lead byte: <<number of continuation bytes, lower and upper bound of
\* the first continuation byte, payload bits of the lead>>; <<0,...>> for a
\* byte that cannot start a sequence
Utf8Lead(c) ==
  IF c >= 194 /\ c <= 223 THEN <<1, 128, 191, c - 192>>
  ELSE IF c = 224 THEN <<2, 160, 191, 0>>
  ELSE IF c = 237 THEN <<2, 128, 159, 13>>
  ELSE IF c >= 225 /\ c <= 239 THEN <<2, 128, 191, c - 224>>
  ELSE IF c = 240 THEN <<3, 144, 191, 0>>
  ELSE IF c = 244 THEN <<3, 128, 143, 4>>
  ELSE IF c >= 241 /\ c <= 243 THEN <<3, 128, 191, c - 240>>
  ELSE <<0, 0, 0, 0>>

RECURSIVE Utf8DecodeFrom(_, _)
\* TextDecoder.decode (not fatal): every maximal ill-formed subsequence
\* becomes one U+FFFD
Utf8DecodeFrom(b, i) ==
  IF i > Len(b) THEN <<>>
  ELSE LET c == b[i]
           L == Utf8Lead(c)
           has(k) == i + k <= Len(b)
           ok1 == has(1) /\ IsCont(b[i + 1], L[2], L[3])
           ok2 == ok1 /\ has(2) /\ IsCont(b[i + 2], 128, 191)
           ok3 == ok2 /\ has(3) /\ IsCont(b[i + 3], 128, 191)
       IN  IF c < 128 THEN <<c>> \o Utf8DecodeFrom(b, i + 1)
           ELSE IF L[1] = 0 THEN <<65533>> \o Utf8DecodeFrom(b, i + 1)
           ELSE IF ~ok1 THEN <<65533>> \o Utf8DecodeFrom(b, i + 1)
           ELSE IF L[1] = 1
                THEN <<L[4] * 64 + (b[i + 1] - 128)>> \o Utf8DecodeFrom(b, i + 2)
           ELSE IF ~ok2 THEN <<65533>> \o Utf8DecodeFrom(b, i + 2)
           ELSE IF L[1] = 2
                THEN <<L[4] * 4096 + (b[i + 1] - 128) * 64 + (b[i + 2] - 128)>>
                     \o Utf8DecodeFrom(b, i + 3)
           ELSE IF ~ok3 THEN <<65533>> \o Utf8DecodeFrom(b, i + 3)
           ELSE <<L[4] * 262144 + (b[i + 1] - 128) * 4096
                  + (b[i + 2] - 128) * 64 + (b[i + 3] - 128)>>
                \o Utf8DecodeFrom(b, i + 4)

Utf8Decode(b) == Utf8DecodeFrom(b, 1)

(***************************************************************************)
(* base64url without padding (RFC 4648, section 5)                         *)
(***************************************************************************)

\* the character of a 6-bit value
B64Char(v) ==
  IF v < 26 THEN 65 + v
  ELSE IF v < 52 THEN 97 + (v - 26)
  ELSE IF v < 62 THEN 48 + (v - 52)
  ELSE IF v = 62 THEN 45 ELSE 95

\* the 6-bit value of a character, -1 for a character outside the alphabet
B64Val(c) ==
  IF c >= 65 /\ c <= 90 THEN c - 65
  ELSE IF c >= 97 /\ c <= 122 THEN c - 97 + 26
  ELSE IF c >= 48 /\ c <= 57 THEN c - 48 + 52
  ELSE IF c = 45 THEN 62
  ELSE IF c = 95 THEN 63 ELSE -1

Base64UrlEncode(b) ==
  LET n == Len(b)
      at(i) == IF i <= n THEN b[i] ELSE 0
      m == (n \div 3) * 4 + (IF n % 3 = 0 THEN 0 ELSE (n % 3) + 1)
  IN  [j \in 1..m |->
         LET g == (j - 1) \div 4
             k == (j - 1) % 4
             b0 == at(3 * g + 1)
             b1 == at(3 * g + 2)
             b2 == at(3 * g + 3)
         IN  B64Char(CASE k = 0 -> b0 \div 4
                       [] k = 1 -> (b0 % 4) * 16 + b1 \div 16
                       [] k = 2 -> (b1 % 16) * 4 + b2 \div 64
                       [] k = 3 -> b2 % 64)]

\* a string decodes when its characters are of the alphabet and its length is
\* not 1 modulo 4; the bits left over in the last character are dropped
Base64UrlValid(s) ==
  /\ Len(s) % 4 # 1
  /\ \A i \in 1..Len(s) : B64Val(s[i]) >= 0

Base64UrlDecode(s) ==
  LET n == Len(s)
      m == (n \div 4) * 3 + (IF n % 4 = 0 THEN 0 ELSE (n % 4) - 1)
  IN  [j \in 1..m |->
         LET g == (j - 1) \div 3
             k == (j - 1) % 3
             v0 == B64Val(s[4 * g + 1])
             v1 == B64Val(s[4 * g + 2])
             v2 == IF 4 * g + 3 <= n THEN B64Val(s[4 * g + 3]) ELSE 0
             v3 == IF 4 * g + 4 <= n THEN B64Val(s[4 * g + 4]) ELSE 0
         IN  CASE k = 0 -> v0 * 4 + v1 \div 16
               [] k = 1 -> (v1 % 16) * 16 + v2 \div 4
               [] k = 2 -> (v2 % 4) * 64 + v3]

(***************************************************************************)
(* Messages: JSON objects                                                  *)
(*                                                                         *)
(* A message is [t |-> "obj", members |-> a sequence of <<key, value>>]    *)
(* with distinct keys, in insertion order; a value is [t |-> "str", s]  or *)
(* [t |-> "num", n] with n a natural number.  Anything else (a primitive,  *)
(* a cyclic structure) is not serializable.  Strings hold no control       *)
(* characters.                                                             *)
(***************************************************************************)

Quote == 34
Backslash == 92

RECURSIVE JsonDigits(_)
JsonDigits(n) ==
  IF n < 10 THEN <<48 + n>> ELSE JsonDigits(n \div 10) \o <<48 + (n % 10)>>

\* JSON.stringify of a string: quoted, with " and \ escaped
JsonString(s) ==
  <<Quote>>
  \o Flatten([i \in 1..Len(s) |->
                IF s[i] = Quote \/ s[i] = Backslash
                THEN <<Backslash, s[i]>> ELSE <<s[i]>>])
  \o <<Quote>>

JsonValue(v) == IF v.t = "str" THEN JsonString(v.s) ELSE JsonDigits(v.n)

\* JSON.stringify of an object: {"k":v,"k":v}
JsonStringify(obj) ==
  LET ms == obj.members
  IN  <<123>>
      \o Flatten([i \in 1..Len(ms) |->
                    (IF i > 1 THEN <<44>> ELSE <<>>)
                    \o JsonString(ms[i][1]) \o <<58>> \o JsonValue(ms[i][2])])
      \o <<125>>

IsSerializable(message) ==
  /\ message.t = "obj"
  /\ \A i, j \in 1..Len(message.members) :
        i # j => message.members[i][1] # message.members[j][1]

ParseFail == [ok |-> FALSE, val |-> <<>>, next |-> 0]

RECURSIVE ParseStringBody(_, _, _)
\* the characters of a string literal from position i on, up to its closing
\* quote; acc is what has been read
ParseStringBody(s, i, acc) ==
  IF i > Len(s) THEN ParseFail
  ELSE IF s[i] = Quote THEN [ok |-> TRUE, val |-> acc, next |-> i + 1]
  ELSE IF s[i] = Backslash
       THEN IF i + 1 <= Len(s) /\ (s[i + 1] = Quote \/ s[i + 1] = Backslash)
            THEN ParseStringBody(s, i + 2, Append(acc, s[i + 1]))
            ELSE ParseFail
  ELSE IF s[i] < 32 THEN ParseFail
  ELSE ParseStringBody(s, i + 1, Append(acc, s[i]))

ParseString(s, i) ==
  IF i <= Len(s) /\ s[i] = Quote THEN ParseStringBody(s, i + 1, <<>>)
  ELSE ParseFail

IsDigit(c) == c >= 48 /\ c <= 57

RECURSIVE ParseDigits(_, _, _)
ParseDigits(s, i, acc) ==
  IF i <= Len(s) /\ IsDigit(s[i])
  THEN ParseDigits(s, i + 1, acc * 10 + (s[i] - 48))
  ELSE [ok |-> TRUE, val |-> acc, next |-> i]

\* a natural number without a leading zero
ParseNumber(s, i) ==
  IF i > Len(s) \/ ~IsDigit(s[i]) THEN ParseFail
  ELSE IF s[i] = 48 /\ i + 1 <= Len(s) /\ IsDigit(s[i + 1]) THEN ParseFail
  ELSE ParseDigits(s, i, 0)

ParseValue(s, i) ==
  IF i <= Len(s) /\ s[i] = Quote
  THEN LET r == ParseString(s, i)
       IN  IF r.ok THEN [r EXCEPT !.val = [t |-> "str", s |-> r.val]] ELSE ParseFail
  ELSE LET r == ParseNumber(s, i)
       IN  IF r.ok THEN [r EXCEPT !.val = [t |-> "num", n |-> r.val]] ELSE ParseFail

RECURSIVE ParseMembers(_, _, _)
\* "key":value members from position i on, to the closing brace, which must
\* be the last character.  A repeated key keeps its first place and takes
\* the last value, as JSON.parse does.
ParseMembers(s, i, acc) ==
  LET k == ParseString(s, i)
  IN  IF ~k.ok \/ k.next > Len(s) \/ s[k.next] # 58 THEN ParseFail
      ELSE LET v == ParseValue(s, k.next + 1)
               dup == {j \in 1..Len(acc) : acc[j][1] = k.val}
               acc2 == IF dup = {} THEN Append(acc, <<k.val, v.val>>)
                       ELSE [j \in 1..Len(acc) |->
                               IF j \in dup THEN <<k.val, v.val>> ELSE acc[j]]
           IN  IF ~v.ok \/ v.next > Len(s) THEN ParseFail
               ELSE IF s[v.next] = 125
                    THEN IF v.next = Len(s)
                         THEN [ok |-> TRUE, val |-> acc2, next |-> v.next + 1]
                         ELSE ParseFail
               ELSE IF s[v.next] = 44 THEN ParseMembers(s, v.next + 1, acc2)
               ELSE ParseFail

\* JSON.parse of a text that must be an object
JsonParseObject(s) ==
  IF Len(s) < 2 \/ s[1] # 123 THEN ParseFail
  ELSE IF s[2] = 125
       THEN IF Len(s) = 2 THEN [ok |-> TRUE, val |-> <<>>, next |-> 3]
            ELSE ParseFail
  ELSE ParseMembers(s, 2, <<>>)

(***************************************************************************)
(* Keys and the external cryptographic engine                              *)
(***************************************************************************)

\* a key handle (CryptoKey); NoKey is undefined
NoKey == [id |-> 0, type |-> "undefined", alg |-> "", usages |-> {}]

\* this.keyPair: undefined, or an object with a publicKey and a privateKey
NoKeyPair == [defined |-> FALSE, publicKey |-> NoKey, privateKey |-> NoKey]

PublicKey(id) ==
  [id |-> id, type |-> "public", alg |-> "RSA-PSS", usages |-> {"verify"}]

PrivateKey(id) ==
  [id |-> id, type |-> "private", alg |-> "RSA-PSS", usages |-> {"sign"}]

SecretKey(id) ==
  [id |-> id, type |-> "secret", alg |-> "AES-CTR",
   usages |-> {"encrypt", "decrypt"}]

\* the modulus length of PROTOCOLS.v1.public.algorithm, in bits
ModulusLength == 2048

\* crypto.subtle.generateKey(PROTOCOLS.v1.public.algorithm, true,
\* ["sign", "verify"]): the id-th key pair the engine hands out
GenerateKeyPair(id) ==
  [defined |-> TRUE, publicKey |-> PublicKey(id), privateKey |-> PrivateKey(id)]

\* crypto.subtle.generateKey({name: "AES-CTR", length: 256}, ...); the slot of
\* V1Local holds the key itself, kept here in the shape of a key pair
GenerateSecretKey(id) ==
  [defined |-> TRUE, publicKey |-> SecretKey(id), privateKey |-> SecretKey(id)]

\* An ideal RSA-PSS signature of ModulusLength bits: the signature names the
\* key pair and the salt (twice, so that no single flipped bit names another
\* salt) and the signed bytes; it is injective in all three as long as the
\* signed bytes fit.
ExternalSign(privateKey, data, salt) ==
  [i \in 1..(ModulusLength \div 8) |->
     IF i = 1 THEN privateKey.id
     ELSE IF i = 2 THEN salt
     ELSE IF i = 3 THEN 255 - salt
     ELSE IF i - 3 <= Len(data) THEN data[i - 3] ELSE 0]

\* crypto.subtle.verify: true exactly for a signature the private key of the
\* same pair makes of the same bytes, under whatever salt
ExternalVerify(publicKey, signature, data) ==
  /\ Len(signature) = ModulusLength \div 8
  /\ Len(data) <= (ModulusLength \div 8) - 3
  /\ signature = ExternalSign(PrivateKey(publicKey.id), data, signature[2])

\* util/key.ts: sign wants a private signing key, verify a public
\* verification key
checkKeyPurpose(operation, key) ==
  /\ key.type # "undefined"
  /\ key.alg = "RSA-PSS"
  /\ operation \in key.usages
  /\ key.type = (IF operation = "sign" THEN "private" ELSE "public")

(***************************************************************************)
(* PAE, the token framer and the validators                                *)
(***************************************************************************)

\* an unsigned integer as 8 little-endian bytes; the lengths written are
\* below 2^31, so the upper four bytes are 0
LE64(n) ==
  [i \in 1..8 |->
     CASE i = 1 -> n % 256
       [] i = 2 -> (n \div 256) % 256
       [] i = 3 -> (n \div 65536) % 256
       [] i = 4 -> (n \div 16777216) % 256
       [] OTHER -> 0]

\* util/pae.ts: the count of parts, then each part's length and bytes
PAE(parts) ==
  LE64(Len(parts))
  \o Flatten([i \in 1..Len(parts) |-> LE64(Len(parts[i])) \o parts[i]])

\* util/packer.ts: header "." base64url(payload || signature)
\* [ "." base64url(footer) ], the footer only when it is not empty
packer(h, payload, signature, f) ==
  h \o <<Dot>> \o Base64UrlEncode(payload \o signature)
  \o (IF f = <<>> THEN <<>> ELSE <<Dot>> \o Base64UrlEncode(Utf8Encode(f)))

\* the positions of the dots of a raw token
DotsOf(t) == {i \in 1..Len(t) : t[i] = Dot}

\* String.split("."): the segments between the dots
Split(t) ==
  LET D == DotsOf(t)
      nth(n) == CHOOSE d \in D : Cardinality({e \in D : e < d}) = n - 1
  IN  [k \in 1..(Cardinality(D) + 1) |->
         SubSeq(t,
                IF k = 1 THEN 1 ELSE nth(k - 1) + 1,
                IF k = Cardinality(D) + 1 THEN Len(t) ELSE nth(k) - 1)]

NoParse ==
  [err |-> "", version |-> <<>>, purpose |-> <<>>, payload |-> <<>>,
   footer |-> <<>>, signatureBytes |-> <<>>]

\* util/raw_parser.ts: the parsed token, or the error it fails with (err)
\* _parse_raw_token(rawToken, {version, purpose, signatureLength})
ParseRawToken(rawToken, version, purpose, signatureLength) ==
  LET segs == Split(rawToken)
      body == Base64UrlDecode(segs[3])
      n == Len(body)
  IN  IF Len(segs) # 3 /\ Len(segs) # 4
      THEN [NoParse EXCEPT !.err = "MalformedTokenError"]
      ELSE IF segs[1] # version \/ segs[2] # purpose
      THEN [NoParse EXCEPT !.err = "HeaderMismatchError"]
      ELSE IF ~Base64UrlValid(segs[3])
      THEN [NoParse EXCEPT !.err = "MalformedTokenError"]
      ELSE IF n < signatureLength
      THEN [NoParse EXCEPT !.err = "MalformedTokenError"]
      ELSE IF Len(segs) = 4 /\ ~Base64UrlValid(segs[4])
      THEN [NoParse EXCEPT !.err = "MalformedTokenError"]
      ELSE [err |-> "",
            version |-> segs[1],
            purpose |-> segs[2],
            payload |-> SubSeq(body, 1, n - signatureLength),
            footer |-> IF Len(segs) = 4
                       THEN Utf8Decode(Base64UrlDecode(segs[4])) ELSE <<>>,
            signatureBytes |-> SubSeq(body, n - signatureLength + 1, n)]

\* util/validation.ts, validateHeader: the header "version.purpose", or
\* HeaderMismatchError
validateHeaderOk(expectedVersion, expectedPurpose, actualVersion, actualPurpose) ==
  expectedVersion = actualVersion /\ expectedPurpose = actualPurpose

\* util/validation.ts, validateClaims: the claims of a payload
validateClaims(payload) == JsonParseObject(Utf8Decode(payload))

(***************************************************************************)
(* The providers                                                           *)
(***************************************************************************)

\* bounds of the model
MaxKeys == 2
MaxPending == 2
MaxSalt == 1

V1 == <<118, 49>>
V2 == <<118, 50>>
PurposePublic == <<112, 117, 98, 108, 105, 99>>
PurposeLocal == <<108, 111, 99, 97, 108>>

\* the instances: one V1Public provider and one V1Local provider
Instances == {"pub", "loc"}

\* new V1Public(keyPair): super("v1", "public"), the key pair given, a
\* signature length of 256
V1Public(keyPair) ==
  [class |-> "V1Public", version |-> V1, purpose |-> PurposePublic,
   keyPair |-> keyPair, signatureLength |-> 256]

\* new V1Local(secretKey): super("v1", "local"), the key given
V1Local(secretKey) ==
  [class |-> "V1Local", version |-> V1, purpose |-> PurposeLocal,
   keyPair |-> secretKey, signatureLength |-> 0]

\* the key pairs a caller may hand to the constructor of V1Public: none, a
\* whole pair, a pair that holds the verification key only, one that holds
\* the signing key only, and a pair whose private member is in fact the
\* public key
PresetKeyPairs ==
  { NoKeyPair,
    GenerateKeyPair(1),
    [defined |-> TRUE, publicKey |-> PublicKey(1), privateKey |-> NoKey],
    [defined |-> TRUE, publicKey |-> NoKey, privateKey |-> PrivateKey(1)],
    [defined |-> TRUE, publicKey |-> PublicKey(1), privateKey |-> PublicKey(1)] }

PresetSecretKeys == {NoKeyPair, GenerateSecretKey(1)}

NoMessage == [t |-> "none", members |-> <<>>]

\* {"sub":"alice"}
Alice ==
  [t |-> "obj",
   members |-> << << <<115, 117, 98>>,
                     [t |-> "str", s |-> <<97, 108, 105, 99, 101>>] >> >>]

\* a structure JSON cannot serialize
Cyclic == [t |-> "cyclic", members |-> <<>>]

\* "footer1"
Footer1 == <<102, 111, 111, 116, 101, 114, 49>>

(***************************************************************************)
(* The methods of v1.ts, as functions of what they read                    *)
(***************************************************************************)

\* a generateKey without its guard
hasKeyNever(this) == FALSE

\* generateKey, its guard: if (this.keyPair) / if (this.secretKey)
hasKey(this) == this.keyPair.defined

\* what the engine's generateKey resolves to for an instance of the class
engineGenerateKey(this, id) ==
  IF this.class = "V1Public" THEN GenerateKeyPair(id) ELSE GenerateSecretKey(id)

\* a generateKey that, finding the slot taken after the await, clears it
assignKeyOrClear(this, generated) ==
  IF this.keyPair.defined THEN [this EXCEPT !.keyPair = NoKeyPair]
  ELSE [this EXCEPT !.keyPair = generated]

\* generateKey, after the await: this.keyPair = <the key pair>
assignKey(this, generated) == [this EXCEPT !.keyPair = generated]

NoSteps == <<>>

\* a sign without its key purpose guard
signKeyOkAlways(this) == TRUE

\* sign, line 123: checkKeyPurpose("sign", this?.keyPair?.privateKey)
signKeyOk(this) == checkKeyPurpose("sign", this.keyPair.privateKey)

\* a sign that signs the three buffers run together
signPAEConcat(h, u8msg, f) == PAE(<<Utf8Encode(h) \o u8msg \o Utf8Encode(f)>>)

\* a sign that encodes the footer before the message
signPAESwapped(h, u8msg, f) == PAE(<<Utf8Encode(h), Utf8Encode(f), u8msg>>)

\* sign, line 129: PAE([h, u8msg, f])
signPAE(h, u8msg, f) == PAE(<<Utf8Encode(h), u8msg, Utf8Encode(f)>>)

\* a sign that validates the message before it looks at the key
signStartValidatesFirst(this, message, footer) ==
  LET key == this.keyPair.privateKey
      h == this.version \o <<Dot>> \o this.purpose
      u8msg == Utf8Encode(JsonStringify(message))
      none == [err |-> "", steps |-> NoSteps, key |-> NoKey, h |-> <<>>,
               payload |-> <<>>, f |-> <<>>, m2 |-> <<>>, sig |-> <<>>]
  IN  IF ~IsSerializable(message)
      THEN [none EXCEPT !.err = "InvalidMessageError",
                        !.steps = <<"validateMessage">>]
      ELSE IF ~checkKeyPurpose("sign", key)
      THEN [none EXCEPT !.err = "KeyPurposeError",
                        !.steps = <<"validateMessage", "checkKeyPurpose">>]
      ELSE [none EXCEPT
              !.steps = <<"validateMessage", "checkKeyPurpose",
                          "validateFooter", "PAE", "externalSign">>,
              !.key = key, !.h = h, !.payload = u8msg, !.f = footer,
              !.m2 = PAE(<<Utf8Encode(h), u8msg, Utf8Encode(footer)>>)]

\* sign, up to the call of crypto.subtle.sign (lines 121 to 135): the error
\* thrown, or the values the rest of the call keeps
signStart(this, message, footer) ==
  LET key == this.keyPair.privateKey
      h == this.version \o <<Dot>> \o this.purpose
      m == JsonStringify(message)
      u8msg == Utf8Encode(m)
      f == footer
      none == [err |-> "", steps |-> NoSteps, key |-> NoKey, h |-> <<>>,
               payload |-> <<>>, f |-> <<>>, m2 |-> <<>>, sig |-> <<>>]
  IN  IF ~signKeyOk(this)
      THEN [none EXCEPT !.err = "KeyPurposeError",
                        !.steps = <<"checkKeyPurpose">>]
      ELSE IF ~IsSerializable(message)
      THEN [none EXCEPT !.err = "InvalidMessageError",
                        !.steps = <<"checkKeyPurpose", "validateMessage">>]
      ELSE [none EXCEPT
              !.steps = <<"checkKeyPurpose", "validateMessage",
                          "validateFooter", "PAE", "externalSign">>,
              !.key = key, !.h = h, !.payload = u8msg, !.f = f,
              !.m2 = signPAE(h, u8msg, f)]

\* a sign that always writes a footer segment
signFinishAlwaysFooter(h, u8msg, signature, f) ==
  h \o <<Dot>> \o Base64UrlEncode(u8msg \o signature)
  \o <<Dot>> \o Base64UrlEncode(Utf8Encode(f))

\* sign, after the await (line 137)
signFinish(h, u8msg, signature, f) == packer(h, u8msg, signature, f)

\* a verify that expects "v1" and "public" whatever the instance's header
verifyExpectedFixed(this) == <<V1, PurposePublic>>

\* verify, lines 152, 153 and 157: the version and purpose it expects
verifyExpected(this) == <<this.version, this.purpose>>

\* a verify that tells the parser of no signature length
verifySignatureLengthNone(this) == 0

\* verify, line 154: the signature length it gives the parser
verifySignatureLength(this) == this.signatureLength

\* a verify that leaves the footer out of what it checks the signature on
verifyPAEDropsFooter(h, m, f) == PAE(<<Utf8Encode(h), m, <<>>>>)

\* verify, lines 158 to 161: f = footer || "", m2 = PAE([h, m, f])
verifyPAE(h, m, f) == PAE(<<Utf8Encode(h), m, Utf8Encode(f)>>)

\* a verify that takes the header from the token and does not compare it
\* with its own
verifyStartSkipsHeader(this, rawToken) ==
  LET key == this.keyPair.publicKey
      segs == Split(rawToken)
      parsed == IF Len(segs) >= 2
                THEN ParseRawToken(rawToken, segs[1], segs[2],
                                   this.signatureLength)
                ELSE [NoParse EXCEPT !.err = "MalformedTokenError"]
      h == parsed.version \o <<Dot>> \o parsed.purpose
      none == [err |-> "", steps |-> NoSteps, key |-> NoKey, h |-> <<>>,
               payload |-> <<>>, f |-> <<>>, m2 |-> <<>>, sig |-> <<>>]
  IN  IF ~checkKeyPurpose("verify", key)
      THEN [none EXCEPT !.err = "KeyPurposeError",
                        !.steps = <<"checkKeyPurpose">>]
      ELSE IF parsed.err # ""
      THEN [none EXCEPT !.err = parsed.err,
                        !.steps = <<"checkKeyPurpose", "parse">>]
      ELSE [none EXCEPT
              !.steps = <<"checkKeyPurpose", "parse", "PAE", "externalVerify">>,
              !.key = key, !.h = h, !.payload = parsed.payload,
              !.f = parsed.footer, !.sig = parsed.signatureBytes,
              !.m2 = PAE(<<Utf8Encode(h), parsed.payload,
                           Utf8Encode(parsed.footer)>>)]

\* verify, up to the call of crypto.subtle.verify (lines 145 to 168)
verifyStart(this, rawToken) ==
  LET key == this.keyPair.publicKey
      expected == verifyExpected(this)
      parsed == ParseRawToken(rawToken, expected[1], expected[2],
                              verifySignatureLength(this))
      h == expected[1] \o <<Dot>> \o expected[2]
      f == parsed.footer
      s == parsed.signatureBytes
      m == parsed.payload
      none == [err |-> "", steps |-> NoSteps, key |-> NoKey, h |-> <<>>,
               payload |-> <<>>, f |-> <<>>, m2 |-> <<>>, sig |-> <<>>]
  IN  IF ~checkKeyPurpose("verify", key)
      THEN [none EXCEPT !.err = "KeyPurposeError",
                        !.steps = <<"checkKeyPurpose">>]
      ELSE IF parsed.err # ""
      THEN [none EXCEPT !.err = parsed.err,
                        !.steps = <<"checkKeyPurpose", "parse">>]
      ELSE IF ~validateHeaderOk(expected[1], expected[2],
                                parsed.version, parsed.purpose)
      THEN [none EXCEPT !.err = "HeaderMismatchError",
                        !.steps = <<"checkKeyPurpose", "parse", "validateHeader">>]
      ELSE [none EXCEPT
              !.steps = <<"checkKeyPurpose", "parse", "validateHeader",
                          "PAE", "externalVerify">>,
              !.key = key, !.h = h, !.payload = m, !.f = f, !.sig = s,
              !.m2 = verifyPAE(h, m, f)]

NoResult ==
  [err |-> "", text |-> "", token |-> <<>>, message |-> NoMessage,
   footer |-> <<>>]

\* a verify that does not look at the engine's answer
verifyFinishIgnoresAnswer(isVerified, payload, footer) ==
  LET claims == validateClaims(payload)
  IN  IF claims.ok
      THEN [NoResult EXCEPT
              !.message = [t |-> "obj", members |-> claims.val],
              !.footer = footer]
      ELSE [NoResult EXCEPT !.err = "ClaimsError"]

\* a verify that parses the claims before it looks at the engine's answer
verifyFinishClaimsFirst(isVerified, payload, footer) ==
  LET claims == validateClaims(payload)
  IN  IF ~claims.ok THEN [NoResult EXCEPT !.err = "ClaimsError"]
      ELSE IF isVerified
      THEN [NoResult EXCEPT
              !.message = [t |-> "obj", members |-> claims.val],
              !.footer = footer]
      ELSE [NoResult EXCEPT !.err = "VerificationError",
                            !.text = "The token failed verification."]

\* verify, after the await (lines 170 to 176)
verifyFinish(isVerified, payload, footer) ==
  LET claims == validateClaims(payload)
  IN  IF isVerified
      THEN IF claims.ok
           THEN [NoResult EXCEPT
                   !.message = [t |-> "obj", members |-> claims.val],
                   !.footer = footer]
           ELSE [NoResult EXCEPT !.err = "ClaimsError"]
      ELSE [NoResult EXCEPT !.err = "VerificationError",
                            !.text = "The token failed verification."]

(***************************************************************************)
(* The state                                                               *)
(*                                                                         *)
(* provider  the fields of each instance                                   *)
(* keygens   how many times the engine's generateKey has been invoked      *)
(* pending   the calls that are waiting for the engine (at an await)       *)
(* last      what the step just taken returned to its caller, if anything  *)
(* wire      the token in transit: the last token sign returned, possibly  *)
(*           altered on the way                                            *)
(* succeeded how many generateKey calls of each instance have succeeded    *)
(* encoding  a list of byte buffers and what PAE and sign make of it       *)
(***************************************************************************)
VARIABLES provider, keygens, pending, last, wire, succeeded, encoding

vars == <<provider, keygens, pending, last, wire, succeeded, encoding>>

NoStart ==
  [err |-> "", steps |-> NoSteps, key |-> NoKey, h |-> <<>>,
   payload |-> <<>>, f |-> <<>>, m2 |-> <<>>, sig |-> <<>>]

NoWire ==
  [kind |-> "none", raw |-> <<>>, inst |-> "", message |-> NoMessage,
   footer |-> <<>>]

\* a call: its operation, instance and arguments, whether the instance held
\* a key when it was called, the key id the engine will hand out
\* (generateKey), and what its synchronous part computed (st)
NoCall ==
  [op |-> "idle", inst |-> "", message |-> NoMessage, footer |-> <<>>,
   origin |-> NoWire, hadKey |-> FALSE, keyId |-> 0, st |-> NoStart]

\* a return: the call, whether it returned from its synchronous part ("call")
\* or after its await ("resume"), the result, whether the engine's primitive
\* was invoked and what verify answered, and the instance's fields before
\* the step
NoReturn ==
  [phase |-> "none", call |-> NoCall, result |-> NoResult,
   invoked |-> FALSE, isVerified |-> FALSE, before |-> V1Local(NoKeyPair)]

\* what sign would sign, were the three buffers its h, its message bytes
\* and its footer (lines 125 to 129)
SignedBytes(parts) ==
  IF Len(parts) = 3 THEN signPAE(parts[1], parts[2], parts[3]) ELSE <<>>

\* a list of buffers, its PAE, and what sign would sign
EncodingOf(parts) ==
  [parts |-> parts, out |-> PAE(parts), signed |-> SignedBytes(parts)]

NoEncoding == EncodingOf(<<>>)

Slots == 1..MaxPending

FreeSlots == {k \in Slots : pending[k].op = "idle"}

\* a new call waits in the lowest free slot
PutPending(call) ==
  LET k == CHOOSE k \in FreeSlots : \A j \in FreeSlots : k <= j
  IN  pending' = [pending EXCEPT ![k] = call]

Throw(call, err, text, i) ==
  last' = [NoReturn EXCEPT !.phase = "call", !.call = call,
                           !.result = [NoResult EXCEPT !.err = err, !.text = text],
                           !.before = provider[i]]

Init ==
  /\ provider \in
       { [i \in Instances |-> IF i = "pub" THEN V1Public(kp) ELSE V1Local(sk)] :
           kp \in PresetKeyPairs, sk \in PresetSecretKeys }
  /\ keygens = 0
  /\ pending = [k \in Slots |-> NoCall]
  /\ last = NoReturn
  /\ wire = NoWire
  /\ succeeded = [i \in Instances |-> 0]
  /\ encoding = NoEncoding

(***************************************************************************)
(* generateKey (V1Local, lines 37 to 50; V1Public, lines 103 to 113)       *)
(***************************************************************************)

alreadyText(this) ==
  IF this.class = "V1Public" THEN "This provider already has a key pair."
  ELSE "This provider already has a secret key."

\* the call: throw when the slot holds a key, else ask the engine and wait
GenerateKeyCall(i) ==
  LET call == [NoCall EXCEPT !.op = "generateKey", !.inst = i,
                             !.hadKey = provider[i].keyPair.defined,
                             !.keyId = keygens + 2]
  IN  IF hasKey(provider[i])
      THEN /\ Throw([call EXCEPT !.keyId = 0], "ProviderError",
                    alreadyText(provider[i]), i)
           /\ UNCHANGED <<encoding, provider, keygens, pending, wire, succeeded>>
      ELSE /\ FreeSlots # {}
           /\ keygens < MaxKeys
           /\ keygens' = keygens + 1
           /\ PutPending(call)
           /\ last' = NoReturn
           /\ UNCHANGED <<encoding, provider, wire, succeeded>>

\* the engine resolves: the key is assigned and the call returns
GenerateKeyResume(k) ==
  LET call == pending[k]
      i == call.inst
  IN  /\ call.op = "generateKey"
      /\ provider' = [provider EXCEPT
                        ![i] = assignKey(@, engineGenerateKey(@, call.keyId))]
      /\ pending' = [pending EXCEPT ![k] = NoCall]
      /\ succeeded' = [succeeded EXCEPT ![i] = @ + 1]
      /\ last' = [NoReturn EXCEPT !.phase = "resume", !.call = call,
                                  !.invoked = TRUE, !.before = provider[i]]
      /\ UNCHANGED <<encoding, keygens, wire>>

\* a generateKey that stores the engine's promise before it awaits it: a
\* rejection leaves the slot set, without keys
GenerateKeyRejectKeepsPromise(k) ==
  LET call == pending[k]
  IN  /\ call.op = "generateKey"
      /\ provider' = [provider EXCEPT
                        ![call.inst].keyPair = [NoKeyPair EXCEPT !.defined = TRUE]]
      /\ pending' = [pending EXCEPT ![k] = NoCall]
      /\ last' = [NoReturn EXCEPT
                    !.phase = "resume", !.call = call, !.invoked = TRUE,
                    !.result = [NoResult EXCEPT !.err = "OperationError"],
                    !.before = provider[call.inst]]
      /\ UNCHANGED <<encoding, keygens, wire, succeeded>>

\* the engine rejects: the await throws, nothing is assigned
GenerateKeyReject(k) ==
  LET call == pending[k]
  IN  /\ call.op = "generateKey"
      /\ pending' = [pending EXCEPT ![k] = NoCall]
      /\ last' = [NoReturn EXCEPT
                    !.phase = "resume", !.call = call, !.invoked = TRUE,
                    !.result = [NoResult EXCEPT !.err = "OperationError"],
                    !.before = provider[call.inst]]
      /\ UNCHANGED <<encoding, provider, keygens, wire, succeeded>>

(***************************************************************************)
(* V1Public.sign (lines 121 to 138)                                        *)
(***************************************************************************)

SignCall(i, message, footer) ==
  LET st == signStart(provider[i], message, footer)
      call == [NoCall EXCEPT !.op = "sign", !.inst = i, !.message = message,
                             !.footer = footer, !.st = st,
                             !.hadKey = provider[i].keyPair.defined]
  IN  /\ provider[i].class = "V1Public"
      /\ IF st.err # ""
         THEN /\ Throw(call, st.err, "", i)
              /\ UNCHANGED <<encoding, provider, keygens, pending, wire, succeeded>>
         ELSE /\ FreeSlots # {}
              /\ PutPending(call)
              /\ last' = NoReturn
              /\ UNCHANGED <<encoding, provider, keygens, wire, succeeded>>

\* the engine resolves with a signature made under some salt
SignResume(k, salt) ==
  LET call == pending[k]
      st == call.st
      signature == ExternalSign(st.key, st.m2, salt)
      token == signFinish(st.h, st.payload, signature, st.f)
  IN  /\ call.op = "sign"
      /\ pending' = [pending EXCEPT ![k] = NoCall]
      /\ last' = [NoReturn EXCEPT
                    !.phase = "resume", !.call = call, !.invoked = TRUE,
                    !.result = [NoResult EXCEPT !.token = token],
                    !.before = provider[call.inst]]
      /\ wire' = [kind |-> "issued", raw |-> token, inst |-> call.inst,
                  message |-> call.message, footer |-> call.footer]
      /\ UNCHANGED <<encoding, provider, keygens, succeeded>>

(***************************************************************************)
(* V1Public.verify (lines 145 to 177)                                      *)
(***************************************************************************)

\* a verify that takes over the version and purpose the raw token names
VerifyCallAdoptsHeader(i, origin) ==
  LET st == verifyStart(provider[i], origin.raw)
      segs == Split(origin.raw)
      call == [NoCall EXCEPT !.op = "verify", !.inst = i, !.origin = origin,
                             !.st = st,
                             !.hadKey = provider[i].keyPair.defined]
  IN  /\ provider[i].class = "V1Public"
      /\ provider' = IF Len(segs) >= 2
                     THEN [provider EXCEPT ![i].version = segs[1],
                                           ![i].purpose = segs[2]]
                     ELSE provider
      /\ IF st.err # ""
         THEN /\ Throw(call, st.err, "", i)
              /\ UNCHANGED <<encoding, keygens, pending, wire, succeeded>>
         ELSE /\ FreeSlots # {}
              /\ PutPending(call)
              /\ last' = NoReturn
              /\ UNCHANGED <<encoding, keygens, wire, succeeded>>

VerifyCall(i, origin) ==
  LET st == verifyStart(provider[i], origin.raw)
      call == [NoCall EXCEPT !.op = "verify", !.inst = i, !.origin = origin,
                             !.st = st,
                             !.hadKey = provider[i].keyPair.defined]
  IN  /\ provider[i].class = "V1Public"
      /\ IF st.err # ""
         THEN /\ Throw(call, st.err, "", i)
              /\ UNCHANGED <<encoding, provider, keygens, pending, wire, succeeded>>
         ELSE /\ FreeSlots # {}
              /\ PutPending(call)
              /\ last' = NoReturn
              /\ UNCHANGED <<encoding, provider, keygens, wire, succeeded>>

VerifyResume(k) ==
  LET call == pending[k]
      st == call.st
      isVerified == ExternalVerify(st.key, st.sig, st.m2)
  IN  /\ call.op = "verify"
      /\ pending' = [pending EXCEPT ![k] = NoCall]
      /\ last' = [NoReturn EXCEPT
                    !.phase = "resume", !.call = call, !.invoked = TRUE,
                    !.isVerified = isVerified,
                    !.result = verifyFinish(isVerified, st.payload, st.f),
                    !.before = provider[call.inst]]
      /\ UNCHANGED <<encoding, provider, keygens, wire, succeeded>>

(***************************************************************************)
(* Tokens in transit                                                       *)
(***************************************************************************)

Pow2(k) ==
  CASE k = 0 -> 1 [] k = 1 -> 2 [] k = 2 -> 4 [] k = 3 -> 8
    [] k = 4 -> 16 [] k = 5 -> 32 [] k = 6 -> 64 [] k = 7 -> 128

FlipBit(b, bit) ==
  IF (b \div Pow2(bit)) % 2 = 1 THEN b - Pow2(bit) ELSE b + Pow2(bit)

\* the bytes a token carries: its body (payload || signature) and its footer
BodyOf(raw) == Base64UrlDecode(Split(raw)[3])

FooterBytesOf(raw) ==
  IF Len(Split(raw)) = 4 THEN Base64UrlDecode(Split(raw)[4]) ELSE <<>>

\* the token with the given body and footer bytes in place of its own
Reframe(raw, body, footerBytes) ==
  LET segs == Split(raw)
  IN  segs[1] \o <<Dot>> \o segs[2] \o <<Dot>> \o Base64UrlEncode(body)
      \o (IF Len(segs) = 4 THEN <<Dot>> \o Base64UrlEncode(footerBytes)
          ELSE <<>>)

\* one bit of the token in transit flips: bit `bit` of byte `pos`, counting
\* through the payload, the signature and then the footer
TamperBit(pos, bit) ==
  LET body == BodyOf(wire.raw)
      fb == FooterBytesOf(wire.raw)
      n == Len(body)
      sigStart == n - (ModulusLength \div 8) + 1
  IN  /\ wire.kind = "issued"
      /\ pos <= n + Len(fb)
      /\ wire' =
           [wire EXCEPT
              !.kind = IF pos < sigStart THEN "flipPayload"
                       ELSE IF pos <= n THEN "flipSignature" ELSE "flipFooter",
              !.raw = IF pos <= n
                      THEN Reframe(wire.raw,
                                   [body EXCEPT ![pos] = FlipBit(@, bit)], fb)
                      ELSE Reframe(wire.raw, body,
                                   [fb EXCEPT ![pos - n] = FlipBit(@, bit)])]
      /\ last' = NoReturn
      /\ UNCHANGED <<encoding, provider, keygens, pending, succeeded>>

\* the footer segment of the token in transit is cut off
DropFooter ==
  LET segs == Split(wire.raw)
  IN  /\ wire.kind = "issued"
      /\ Len(segs) = 4
      /\ wire' = [wire EXCEPT
                    !.kind = "dropFooter",
                    !.raw = segs[1] \o <<Dot>> \o segs[2] \o <<Dot>> \o segs[3]]
      /\ last' = NoReturn
      /\ UNCHANGED <<encoding, provider, keygens, pending, succeeded>>

\* a footer is appended to a token in transit that has none
AddFooter(f) ==
  /\ wire.kind = "issued"
  /\ Len(Split(wire.raw)) = 3
  /\ f # <<>>
  /\ wire' = [wire EXCEPT
                !.kind = "addFooter",
                !.raw = wire.raw \o <<Dot>> \o Base64UrlEncode(Utf8Encode(f))]
  /\ last' = NoReturn
  /\ UNCHANGED <<encoding, provider, keygens, pending, succeeded>>

\* the last character of the token in transit is lost
Truncate ==
  /\ wire.kind = "issued"
  /\ wire' = [wire EXCEPT !.kind = "truncate",
                          !.raw = SubSeq(wire.raw, 1, Len(wire.raw) - 1)]
  /\ last' = NoReturn
  /\ UNCHANGED <<encoding, provider, keygens, pending, succeeded>>

(***************************************************************************)
(* The callers                                                             *)
(***************************************************************************)

\* {}
Empty == [t |-> "obj", members |-> <<>>]

\* {"a\"":120,"b":"\\é"}: a number, and strings that need escaping and
\* more than one byte per character
Mixed ==
  [t |-> "obj",
   members |-> << << <<97, 34>>, [t |-> "num", n |-> 120] >>,
                  << <<98>>, [t |-> "str", s |-> <<92, 233>>] >> >>]

\* the messages and footers callers sign
Messages == {Alice, Empty, Mixed, Cyclic}

\* "", "footer1", "f", "fo", "foo", and one with characters of 2 and 3 bytes
Footers ==
  {<<>>, Footer1, <<102>>, <<102, 111>>, <<102, 111, 111>>, <<233, 8364>>}

\* a token somebody else made: the given header, the payload and footer
\* signed with the private key of pair keyId
ForgedToken(version, purpose, keyId, payload, footer) ==
  LET h == version \o <<Dot>> \o purpose
  IN  packer(h, payload,
             ExternalSign(PrivateKey(keyId),
                          PAE(<<Utf8Encode(h), payload, Utf8Encode(footer)>>), 1),
             footer)

AliceBytes == Utf8Encode(JsonStringify(Alice))

\* raw tokens that are not well-formed v1.public tokens
MalformedTokens ==
  { \* "v1.public" alone: two segments
    V1 \o <<Dot>> \o PurposePublic,
    \* five segments
    V1 \o <<Dot>> \o PurposePublic \o <<Dot, 65, 65, Dot, 65, 65, Dot, 65, 65>>,
    \* a body that is not base64url ("A*AA")
    V1 \o <<Dot>> \o PurposePublic \o <<Dot, 65, 42, 65, 65>>,
    \* a body shorter than a signature
    V1 \o <<Dot>> \o PurposePublic \o <<Dot>> \o Base64UrlEncode(AliceBytes),
    \* the same two bodies under the header of another version
    V2 \o <<Dot>> \o PurposePublic \o <<Dot, 65, 42, 65, 65>>,
    V2 \o <<Dot>> \o PurposePublic \o <<Dot>> \o Base64UrlEncode(AliceBytes) }

\* well-formed tokens made elsewhere
ForgedTokens ==
  { \* of another version and of another purpose
    ForgedToken(V2, PurposePublic, 1, AliceBytes, <<>>),
    ForgedToken(V1, PurposeLocal, 1, AliceBytes, Footer1),
    \* a v1.public token signed with a key pair nobody here holds
    ForgedToken(V1, PurposePublic, 9, AliceBytes, <<>>),
    \* v1.public tokens made by another holder of key pair 1: Alice's
    \* claims, and a payload that is not JSON ("x")
    ForgedToken(V1, PurposePublic, 1, AliceBytes, Footer1),
    ForgedToken(V1, PurposePublic, 1, <<120>>, <<>>) }

ForeignOf(tokens) ==
  {[NoWire EXCEPT !.kind = "foreign", !.raw = t] : t \in tokens}

\* the token in transit, if there is one
OnWire == IF wire.kind = "none" THEN {} ELSE {wire}

\* no call is waiting
Quiet == FreeSlots = Slots

(***************************************************************************)
(* Spec: the calls of both instances, overlapping                          *)
(***************************************************************************)

Next ==
  \/ \E i \in Instances : GenerateKeyCall(i)
  \/ \E k \in Slots : GenerateKeyResume(k)
  \/ \E k \in Slots : GenerateKeyReject(k)
  \/ \E i \in Instances, f \in {<<>>, Footer1} : SignCall(i, Alice, f)
  \/ \E k \in Slots, salt \in 1..MaxSalt : SignResume(k, salt)
  \/ \E i \in Instances, o \in OnWire : VerifyCall(i, o)
  \/ \E k \in Slots : VerifyResume(k)

Spec == Init /\ [][Next]_vars

(***************************************************************************)
(* SpecWire: the V1Public instance, built with any of the key pairs, used  *)
(* one call at a time (each call awaited before the next); tokens are      *)
(* truncated or lose or gain a footer on the way, and foreign tokens       *)
(* arrive                                                                  *)
(***************************************************************************)

\* the V1Local instance is left as built, without a key
InitWire == Init /\ provider["loc"] = V1Local(NoKeyPair)

NextWire ==
  \/ Quiet /\ GenerateKeyCall("pub")
  \/ \E k \in Slots : GenerateKeyResume(k)
  \/ \E k \in Slots : GenerateKeyReject(k)
  \/ Quiet /\ \E m \in Messages, f \in Footers : SignCall("pub", m, f)
  \/ \E k \in Slots, salt \in 1..MaxSalt : SignResume(k, salt)
  \/ Quiet /\ DropFooter
  \/ Quiet /\ AddFooter(Footer1)
  \/ Quiet /\ Truncate
  \/ Quiet /\ \E o \in OnWire \cup ForeignOf(MalformedTokens \cup ForgedTokens) :
                VerifyCall("pub", o)
  \/ \E k \in Slots : VerifyResume(k)

SpecWire == InitWire /\ [][NextWire]_vars

(***************************************************************************)
(* SpecTamper: a V1Public instance built with a whole key pair; one token  *)
(* is signed, a single bit of it is flipped or its footer is cut off or    *)
(* one is added on the way, and it is verified; or a token signed with     *)
(* another key pair arrives instead                                        *)
(***************************************************************************)

WrongKeyToken == ForgedToken(V1, PurposePublic, 9, AliceBytes, <<>>)

InitTamper == InitWire /\ provider["pub"] = V1Public(GenerateKeyPair(1))

\* a foreign token arrives in place of one signed here
ForeignArrives(t) ==
  /\ wire.kind = "none"
  /\ wire' = [NoWire EXCEPT !.kind = "foreign", !.raw = t]
  /\ last' = NoReturn
  /\ UNCHANGED <<encoding, provider, keygens, pending, succeeded>>

NextTamper ==
  \/ /\ Quiet
     /\ wire.kind = "none"
     /\ (SignCall("pub", Alice, Footer1) \/ SignCall("pub", Empty, <<>>))
  \/ \E k \in Slots, salt \in 1..MaxSalt : SignResume(k, salt)
  \/ Quiet /\ \E pos \in 1..Len(wire.raw), bit \in 0..7 : TamperBit(pos, bit)
  \/ Quiet /\ DropFooter
  \/ Quiet /\ AddFooter(Footer1)
  \/ Quiet /\ ForeignArrives(WrongKeyToken)
  \/ Quiet /\ \E o \in OnWire : VerifyCall("pub", o)
  \/ \E k \in Slots : VerifyResume(k)

SpecTamper == InitTamper /\ [][NextTamper]_vars

(***************************************************************************)
(* SpecGate: verify as a function of the provider's configuration.  The    *)
(* engine of V1Public runs under each header (version, purpose) and each   *)
(* key pair, and is presented the foreign tokens.                          *)
(***************************************************************************)

Configurations ==
  {<<V1, PurposePublic>>, <<V2, PurposePublic>>, <<V1, PurposeLocal>>,
   <<V2, PurposeLocal>>}

InitGate ==
  /\ provider \in
       { [i \in Instances |->
            IF i = "pub"
            THEN [V1Public(kp) EXCEPT !.version = c[1], !.purpose = c[2]]
            ELSE V1Local(NoKeyPair)] :
           kp \in PresetKeyPairs, c \in Configurations }
  /\ keygens = 0
  /\ pending = [k \in Slots |-> NoCall]
  /\ last = NoReturn
  /\ wire = NoWire
  /\ succeeded = [i \in Instances |-> 0]
  /\ encoding = NoEncoding

NextGate ==
  \/ Quiet /\ \E o \in ForeignOf(MalformedTokens \cup ForgedTokens) :
                VerifyCall("pub", o)
  \/ \E k \in Slots : VerifyResume(k)

SpecGate == InitGate /\ [][NextGate]_vars

(***************************************************************************)
(* SpecKeys: generateKey alone, called on both instances, the calls        *)
(* overlapping                                                             *)
(***************************************************************************)

NextKeys ==
  \/ \E i \in Instances : GenerateKeyCall(i)
  \/ \E k \in Slots : GenerateKeyResume(k)
  \/ \E k \in Slots : GenerateKeyReject(k)

SpecKeys == Init /\ [][NextKeys]_vars

(***************************************************************************)
(* SpecOverlap: sign and verify calls of the V1Public instance that        *)
(* overlap one another, while generateKey calls of the V1Local instance    *)
(* run                                                                     *)
(***************************************************************************)

\* the V1Public instance is KeyReady, built with a whole key pair; the
\* V1Local instance is built without a key
InitOverlap == InitTamper

NextOverlap ==
  \/ SignCall("pub", Alice, Footer1)
  \/ \E k \in Slots, salt \in 1..MaxSalt : SignResume(k, salt)
  \/ \E o \in OnWire \cup ForeignOf({ForgedToken(V2, PurposePublic, 1,
                                                  AliceBytes, <<>>)}) :
       VerifyCall("pub", o)
  \/ \E k \in Slots : VerifyResume(k)
  \/ GenerateKeyCall("loc")
  \/ \E k \in Slots : GenerateKeyResume(k)
  \/ \E k \in Slots : GenerateKeyReject(k)

SpecOverlap == InitOverlap /\ [][NextOverlap]_vars

(***************************************************************************)
(* SpecKeygen: generateKey on both instances, the engine resolving or      *)
(* rejecting, with sign and verify calls of the V1Public instance; each    *)
(* call awaited before the next                                            *)
(***************************************************************************)

NextKeygen ==
  \/ Quiet /\ \E i \in Instances : GenerateKeyCall(i)
  \/ \E k \in Slots : GenerateKeyResume(k)
  \/ \E k \in Slots : GenerateKeyReject(k)
  \/ Quiet /\ SignCall("pub", Alice, <<>>)
  \/ \E k \in Slots, salt \in 1..MaxSalt : SignResume(k, salt)
  \/ Quiet /\ \E o \in OnWire \cup ForeignOf({WrongKeyToken}) :
                VerifyCall("pub", o)
  \/ \E k \in Slots : VerifyResume(k)

SpecKeygen == Init /\ [][NextKeygen]_vars

(***************************************************************************)
(* SpecMachine: the calls that can move an instance between Uninitialized  *)
(* and KeyReady, overlapping: generateKey, sign (until a token is in       *)
(* transit) and verify on the V1Public instance, built without a key or    *)
(* with a whole key pair                                                   *)
(***************************************************************************)

InitMachine ==
  /\ InitWire
  /\ provider["pub"] \in {V1Public(NoKeyPair), V1Public(GenerateKeyPair(1))}

NextMachine ==
  \/ GenerateKeyCall("pub")
  \/ \E k \in Slots : GenerateKeyResume(k)
  \/ \E k \in Slots : GenerateKeyReject(k)
  \/ wire.kind = "none" /\ SignCall("pub", Alice, <<>>)
  \/ \E k \in Slots, salt \in 1..MaxSalt : SignResume(k, salt)
  \/ \E o \in OnWire : VerifyCall("pub", o)
  \/ \E k \in Slots : VerifyResume(k)

SpecMachine == InitMachine /\ [][NextMachine]_vars

(***************************************************************************)
(* SpecPAE: PAE and the bytes sign signs, over lists of buffers            *)
(***************************************************************************)

MaxParts == 3

\* short buffers, buffers that are one another's concatenations, and
\* buffers that carry what PAE writes between parts (a length, a length and
\* a part)
Buffers ==
  { <<>>, <<0>>, <<1>>, <<0, 1>>,
    LE64(0), LE64(1) \o <<1>>, <<0>> \o LE64(1) \o <<1>> }

PartLists == UNION {[1..n -> Buffers] : n \in 0..MaxParts}

\* one more buffer is added to the list, and the list is encoded
EncodeAppend(b) ==
  /\ Len(encoding.parts) < MaxParts
  /\ encoding' = EncodingOf(Append(encoding.parts, b))
  /\ UNCHANGED <<provider, keygens, pending, last, wire, succeeded>>

NextPAE == \E b \in Buffers : EncodeAppend(b)

\* both instances as built without keys, and the empty list encoded
InitPAE ==
  /\ Init
  /\ provider["pub"] = V1Public(NoKeyPair)
  /\ provider["loc"] = V1Local(NoKeyPair)

SpecPAE == InitPAE /\ [][NextPAE]_vars

(***************************************************************************)
(* Properties                                                              *)
(***************************************************************************)

IsSigningKey(key) ==
  key.type = "private" /\ key.alg = "RSA-PSS" /\ "sign" \in key.usages

IsVerificationKey(key) ==
  key.type = "public" /\ key.alg = "RSA-PSS" /\ "verify" \in key.usages

\* the instance holds both keys of one pair, as generateKey leaves it
WholePair(this) ==
  /\ this.keyPair.defined
  /\ IsSigningKey(this.keyPair.privateKey)
  /\ IsVerificationKey(this.keyPair.publicKey)
  /\ this.keyPair.privateKey.id = this.keyPair.publicKey.id

\* the step just taken returned from a call of op
Returned(op) == last.phase # "none" /\ last.call.op = op

\* the one failure verify reports when the signature does not verify
VerificationFailure ==
  [NoResult EXCEPT !.err = "VerificationError",
                   !.text = "The token failed verification."]

\* the token verify was given came from sign on the same instance
OwnToken == last.call.origin.inst = last.call.inst

\* C1: of two generateKey calls of one instance that overlap on the engine's
\* key generation at most one succeeds: no instance has two successful
\* generateKey calls, and a generateKey that succeeds found the slot empty
\* when it wrote it (the first writer's key is not overwritten).
FirstWriterWins ==
  /\ \A i \in Instances : succeeded[i] <= 1
  /\ (Returned("generateKey") /\ last.phase = "resume" /\ last.result.err = "")
       => ~last.before.keyPair.defined

\* C2: the key slot is assigned at most once: once it holds a key pair it
\* holds the same one in every later state.
KeyAssignedAtMostOnce ==
  [][\A i \in Instances :
       provider[i].keyPair.defined => provider'[i].keyPair = provider[i].keyPair]_vars

\* C3: generateKey on an instance whose slot already holds a key fails with
\* ProviderError in the call itself, never reaches the engine (no such call
\* ever waits for it), and leaves the instance as it was.
GenerateKeyOnPopulatedSlotFails ==
  /\ \A k \in Slots : pending[k].op = "generateKey" => ~pending[k].hadKey
  /\ (Returned("generateKey") /\ last.call.hadKey)
       => /\ last.phase = "call"
          /\ last.result.err = "ProviderError"
          /\ ~last.invoked
          /\ provider[last.call.inst] = last.before

\* a second generateKey, after one that succeeded, has just failed
GenerateKeyTwiceWitness ==
  /\ Returned("generateKey")
  /\ last.call.inst = "pub"
  /\ last.call.hadKey
  /\ succeeded["pub"] = 1
  /\ last.result.err = "ProviderError"

\* C4: round trip, calls made one at a time on an instance that holds a
\* whole key pair: sign of a serializable message and any footer returns a
\* token, and verify of that token returns exactly the message and the
\* footer that were signed.
RoundTrip ==
  /\ (Returned("sign") /\ WholePair(last.before) /\ IsSerializable(last.call.message))
       => /\ last.phase = "resume"
          /\ last.result.err = ""
          /\ last.result.token # <<>>
  /\ (Returned("verify") /\ WholePair(last.before)
        /\ last.call.origin.kind = "issued" /\ OwnToken)
       => /\ last.phase = "resume"
          /\ last.result = [NoResult EXCEPT
                              !.message = last.call.origin.message,
                              !.footer = last.call.origin.footer]

\* verify has returned a message of two members with a footer of characters
\* of more than one byte
RoundTripWitness ==
  /\ Returned("verify")
  /\ last.call.origin.kind = "issued"
  /\ last.result.err = ""
  /\ last.result.message = Mixed
  /\ last.result.footer = <<233, 8364>>

TamperKinds ==
  {"flipPayload", "flipSignature", "flipFooter", "dropFooter", "addFooter"}

\* C5: a token sign returned, with one bit of its payload, signature or
\* footer bytes flipped, or with its footer removed or a footer added, fails
\* verify on the same instance with VerificationError; no message is
\* returned.
TamperDetected ==
  (Returned("verify") /\ last.call.origin.kind \in TamperKinds /\ OwnToken)
    => /\ last.phase = "resume"
       /\ last.result = VerificationFailure

\* verify has rejected a token with a flipped footer bit
TamperWitness ==
  /\ Returned("verify")
  /\ last.call.origin.kind = "flipFooter"
  /\ last.result.err = "VerificationError"

\* a raw token is a well-formed v1.public token
WellFormedV1Public(raw) ==
  LET segs == Split(raw)
  IN  /\ Len(segs) \in {3, 4}
      /\ segs[1] = V1
      /\ segs[2] = PurposePublic
      /\ Base64UrlValid(segs[3])
      /\ Len(Base64UrlDecode(segs[3])) >= 256
      /\ Len(segs) = 4 => Base64UrlValid(segs[4])

\* verify was given a well-formed v1.public token on an instance configured
\* for another version or purpose
GateCase ==
  /\ Returned("verify")
  /\ WellFormedV1Public(last.call.origin.raw)
  /\ <<last.before.version, last.before.purpose>> # <<V1, PurposePublic>>

KeyPurposeEnforced ==
  /\ (Returned("sign") /\ ~IsSigningKey(last.before.keyPair.privateKey))
       => /\ last.phase = "call"
          /\ last.result = [NoResult EXCEPT !.err = "KeyPurposeError"]
          /\ ~last.invoked
  /\ (Returned("verify") /\ ~IsVerificationKey(last.before.keyPair.publicKey))
       => /\ last.phase = "call"
          /\ last.result = [NoResult EXCEPT !.err = "KeyPurposeError"]
          /\ ~last.invoked
  /\ \A k \in Slots :
       /\ pending[k].op = "sign" => IsSigningKey(pending[k].st.key)
       /\ pending[k].op = "verify" => IsVerificationKey(pending[k].st.key)
  /\ (Returned("sign") /\ last.invoked) => IsSigningKey(last.call.st.key)
  /\ (Returned("verify") /\ last.invoked) => IsVerificationKey(last.call.st.key)

\* sign has failed on an instance that holds a verification key only
KeyPurposeWitness ==
  /\ Returned("sign")
  /\ last.before.keyPair.defined
  /\ last.before.keyPair.privateKey = NoKey
  /\ last.result.err = "KeyPurposeError"

\* C8: whenever the engine's verify answers false, whatever the token, verify
\* returns one and the same failure: VerificationError with the same text
\* and nothing else.
UniformFailure ==
  (Returned("verify") /\ last.phase = "resume" /\ ~last.isVerified)
    => last.result = VerificationFailure

\* verify has rejected a token signed with another key pair
UniformFailureWitness ==
  /\ Returned("verify")
  /\ last.call.origin.kind = "foreign"
  /\ last.invoked
  /\ ~last.isVerified
  /\ last.result = VerificationFailure

\* verify was given a token sign returned with a footer, less its last
\* character, on the instance (holding a whole key pair) that signed it
TruncationCase ==
  /\ Returned("verify")
  /\ last.call.origin.kind = "truncate"
  /\ last.call.origin.footer # <<>>
  /\ OwnToken
  /\ WholePair(last.before)

SignFraming ==
  (Returned("sign") /\ last.result.err = "")
    => LET token == last.result.token
           segs == Split(token)
           body == Base64UrlDecode(segs[3])
           payload == Utf8Encode(JsonStringify(last.call.message))
           footer == last.call.footer
       IN  /\ Len(segs) = IF footer = <<>> THEN 3 ELSE 4
           /\ segs[1] = V1
           /\ segs[2] = PurposePublic
           /\ Base64UrlValid(segs[3])
           /\ SubSeq(body, 1, Len(payload)) = payload
           /\ Len(body) - Len(payload) = 256
           /\ last.before.signatureLength = 256
           /\ footer # <<>>
                => /\ Base64UrlValid(segs[4])
                   /\ Utf8Decode(Base64UrlDecode(segs[4])) = footer

\* sign has returned a token of three segments for an empty footer
SignFramingWitness ==
  /\ Returned("sign")
  /\ last.result.err = ""
  /\ last.call.footer = <<>>
  /\ Len(Split(last.result.token)) = 3

\* the encodings of all the lists, and what sign signs for all the triples
PAETable == [Q \in PartLists |-> PAE(Q)]

Triples == [1..3 -> Buffers]

SignTable == [Q \in Triples |-> SignedBytes(Q)]

\* C11: PAE is injective: no other list of buffers has the encoding of the
\* list encoded (in particular not a list of other splits of the same
\* bytes), and no other (header, payload, footer) triple gives sign the
\* bytes this triple gives it.
PAEInjective ==
  /\ \A Q \in PartLists : PAETable[Q] = encoding.out => Q = encoding.parts
  /\ Len(encoding.parts) = 3
       => \A Q \in Triples : SignTable[Q] = encoding.signed => Q = encoding.parts

\* [a, b] has been encoded, and [a || b] and the other split of the same
\* bytes encode differently
PAESplitWitness ==
  /\ encoding.parts = << <<0>>, <<1>> >>
  /\ encoding.out # PAE(<< <<0, 1>> >>)
  /\ encoding.out # PAE(<< <<0, 1>>, <<>> >>)
  /\ encoding.out # PAE(<< <<>>, <<0, 1>> >>)

\* the raw token has the wrong number of segments, or a body that is not
\* base64url or is shorter than a signature
BadFraming(raw) ==
  LET segs == Split(raw)
  IN  \/ Len(segs) \notin {3, 4}
      \/ /\ Len(segs) \in {3, 4}
         /\ \/ ~Base64UrlValid(segs[3])
            \/ Len(Base64UrlDecode(segs[3])) < 256

\* the raw token names the version and purpose of the instance
OwnHeader(this, raw) ==
  LET segs == Split(raw)
  IN  Len(segs) >= 2 /\ segs[1] = this.version /\ segs[2] = this.purpose

\* verify was given a raw token on an instance that holds a verification key
MalformedCase ==
  /\ Returned("verify")
  /\ IsVerificationKey(last.before.keyPair.publicKey)
  /\ BadFraming(last.call.origin.raw)

MalformedOutcome ==
  /\ last.phase = "call"
  /\ last.result = [NoResult EXCEPT !.err = "MalformedTokenError"]
  /\ ~last.invoked

KeyReady(this) == this.keyPair.defined

\* C13: an instance is Uninitialized or KeyReady; no step of any call takes a
\* KeyReady instance back to Uninitialized, and the only step that takes an
\* instance from Uninitialized to KeyReady is the return of a generateKey
\* of that instance.
ProviderStateMachine ==
  [][\A i \in Instances :
       /\ KeyReady(provider[i]) => KeyReady(provider'[i])
       /\ (~KeyReady(provider[i]) /\ KeyReady(provider'[i]))
            => /\ last'.call.op = "generateKey"
               /\ last'.call.inst = i
               /\ last'.phase = "resume"
               /\ last'.result.err = ""]_vars

\* a generateKey has taken the V1Public instance to KeyReady, and a verify
\* has returned since, the instance still KeyReady
KeyReadyWitness ==
  /\ succeeded["pub"] >= 1
  /\ Returned("verify")
  /\ KeyReady(provider["pub"])
  /\ wire.kind = "issued"

\* step a comes before step b in the steps a call has taken
Before(a, b, steps) ==
  \E i, j \in 1..Len(steps) : i < j /\ steps[i] = a /\ steps[j] = b

\* the verify calls that have reached the engine: those waiting for it and
\* the one that has just returned from it
AtEngine(op) ==
  {pending[k] : k \in {j \in Slots : pending[j].op = op}}
  \cup (IF Returned(op) /\ last.invoked THEN {last.call} ELSE {})

SignOrder ==
  <<"checkKeyPurpose", "validateMessage", "validateFooter", "PAE",
    "externalSign">>

IsPrefix(a, b) == Len(a) <= Len(b) /\ SubSeq(b, 1, Len(a)) = a

\* the sign calls there are: those waiting for the engine and the one that
\* has just returned
SignCalls ==
  {pending[k] : k \in {j \in Slots : pending[j].op = "sign"}}
  \cup (IF Returned("sign") THEN {last.call} ELSE {})

\* C15: sign runs key purpose guard, message and footer validation, PAE,
\* the engine's sign and pack in this order: every call has taken an initial
\* part of that order, and a token is the pack of what the engine signed; a
\* message that cannot be serialized fails with InvalidMessageError on an
\* instance with a signing key and with KeyPurposeError on an Uninitialized
\* one, the engine not invoked in either case.
SignOrdering ==
  /\ \A c \in SignCalls : IsPrefix(c.st.steps, SignOrder)
  /\ (Returned("sign") /\ last.result.err = "")
       => /\ last.invoked
          /\ last.call.st.steps = SignOrder
          /\ \E salt \in 1..MaxSalt :
                last.result.token =
                  packer(last.call.st.h, last.call.st.payload,
                         ExternalSign(last.call.st.key, last.call.st.m2, salt),
                         last.call.st.f)
  /\ (Returned("sign") /\ ~IsSerializable(last.call.message))
       => /\ last.phase = "call"
          /\ ~last.invoked
          /\ IsSigningKey(last.before.keyPair.privateKey)
               => last.result = [NoResult EXCEPT !.err = "InvalidMessageError"]
          /\ ~KeyReady(last.before)
               => last.result = [NoResult EXCEPT !.err = "KeyPurposeError"]

\* sign of a message that cannot be serialized has failed on an
\* Uninitialized instance, on the key
SignOrderingWitness ==
  /\ Returned("sign")
  /\ last.call.message = Cyclic
  /\ ~KeyReady(last.before)
  /\ last.result.err = "KeyPurposeError"
  /\ last.call.st.steps = <<"checkKeyPurpose">>

\* the message validateClaims makes of a payload
ClaimsOf(payload) == [t |-> "obj", members |-> validateClaims(payload).val]

\* C16: whenever verify returns a message and a footer, the engine's verify
\* was invoked in that call, with the instance's public key, on the PAE of
\* the instance's header and the payload and footer the token carries, and
\* answered true; the claims were parsed after it (a ClaimsError too comes
\* only after a true answer); and the message and footer returned are those
\* of the payload and footer the signature covers.
NoAcceptanceWithoutVerification ==
  /\ (Returned("verify") /\ last.result.err = "")
       => LET st == last.call.st
              this == last.before
              raw == last.call.origin.raw
          IN  /\ last.phase = "resume"
              /\ last.invoked
              /\ last.isVerified
              /\ st.key = this.keyPair.publicKey
              /\ IsVerificationKey(st.key)
              /\ st.payload \o st.sig = BodyOf(raw)
              /\ Len(st.sig) = 256
              /\ st.f = Utf8Decode(FooterBytesOf(raw))
              /\ st.m2 = PAE(<<Utf8Encode(this.version \o <<Dot>> \o this.purpose),
                               st.payload, Utf8Encode(st.f)>>)
              /\ ExternalVerify(st.key, st.sig, st.m2)
              /\ Before("externalVerify", "validateClaims",
                        st.steps \o <<"validateClaims">>)
              /\ validateClaims(st.payload).ok
              /\ last.result.message = ClaimsOf(st.payload)
              /\ last.result.footer = st.f
  /\ (Returned("verify") /\ last.result.err = "ClaimsError")
       => last.phase = "resume" /\ last.invoked /\ last.isVerified

\* verify has accepted a token another holder of the key pair signed, with
\* its footer
AcceptanceWitness ==
  /\ Returned("verify")
  /\ last.call.origin.kind = "foreign"
  /\ last.isVerified
  /\ last.result.err = ""
  /\ last.result.message = Alice
  /\ last.result.footer = Footer1

\* what verify returns for a raw token when it runs alone on an instance
VerifyAlone(this, rawToken) ==
  LET st == verifyStart(this, rawToken)
  IN  IF st.err # "" THEN [NoResult EXCEPT !.err = st.err]
      ELSE verifyFinish(ExternalVerify(st.key, st.sig, st.m2), st.payload, st.f)

\* what sign returns when it runs alone on an instance, the engine signing
\* under the given salt
SignAlone(this, message, footer, salt) ==
  LET st == signStart(this, message, footer)
  IN  IF st.err # "" THEN [NoResult EXCEPT !.err = st.err]
      ELSE [NoResult EXCEPT
              !.token = signFinish(st.h, st.payload,
                                   ExternalSign(st.key, st.m2, salt), st.f)]

\* C17: sign and verify leave the fields of every instance as they are (a
\* step changes an instance only when it is the return of a generateKey of
\* that instance), and a sign or verify call that overlaps others returns
\* what it would return alone on the instance.
ReadOnlySignVerify ==
  /\ [][\A i \in Instances :
          provider'[i] # provider[i]
            => /\ last'.call.op = "generateKey"
               /\ last'.call.inst = i
               /\ provider'[i].version = provider[i].version
               /\ provider'[i].purpose = provider[i].purpose
               /\ provider'[i].signatureLength = provider[i].signatureLength]_vars
  /\ [](Returned("verify")
          => last.result = VerifyAlone(last.before, last.call.origin.raw))
  /\ [](Returned("sign")
          => \E salt \in 1..MaxSalt :
               last.result = SignAlone(last.before, last.call.message,
                                       last.call.footer, salt))

\* a verify has returned a message while a sign call was waiting for the
\* engine and the V1Local instance had generated its key
OverlapWitness ==
  /\ Returned("verify")
  /\ last.result.err = ""
  /\ \E k \in Slots : pending[k].op = "sign"
  /\ succeeded["loc"] = 1
  /\ provider["pub"] = last.before

\* C18: a token a successful sign of an instance returned is accepted by
\* every verify of that instance that starts later, which returns the
\* message and footer signed, under every interleaving of generateKey,
\* sign and verify calls.
TokenStaysVerifiable ==
  (/\ Returned("verify")
   /\ last.call.origin.kind = "issued"
   /\ OwnToken
   /\ WholePair(last.before))
    => last.result = [NoResult EXCEPT
                        !.message = last.call.origin.message,
                        !.footer = last.call.origin.footer]

\* how many generateKey calls the engine has rejected
Rejected ==
  keygens - succeeded["pub"] - succeeded["loc"]
  - Cardinality({k \in Slots : pending[k].op = "generateKey"})

\* C19: when the engine rejects during generateKey on an Uninitialized
\* instance, the failure reaches the caller and the slot stays empty; sign
\* and verify go on failing with KeyPurposeError; and a later generateKey
\* is not refused: it reaches the engine.
FailedGenerationLeavesUninitialized ==
  /\ (Returned("generateKey") /\ last.invoked /\ last.result.err # "")
       => /\ last.phase = "resume"
          /\ last.result.err = "OperationError"
          /\ ~last.call.hadKey
          /\ provider[last.call.inst] = last.before
          /\ ~KeyReady(provider[last.call.inst])
  /\ (Rejected > 0 /\ (Returned("sign") \/ Returned("verify"))
        /\ ~KeyReady(last.before))
       => /\ last.result = [NoResult EXCEPT !.err = "KeyPurposeError"]
          /\ ~last.invoked
  /\ (Rejected > 0 /\ Returned("generateKey") /\ ~KeyReady(last.before))
       => /\ last.invoked
          /\ last.result.err # "ProviderError"

\* after the engine rejected a generateKey of the V1Public instance (the
\* V1Local instance was built with its key and never asked the engine), a
\* later generateKey of the V1Public instance has succeeded
RetryWitness ==
  /\ Returned("generateKey")
  /\ last.call.inst = "pub"
  /\ last.result.err = ""
  /\ Rejected = 1
  /\ succeeded = [pub |-> 1, loc |-> 0]
  /\ KeyReady(provider["loc"])
  /\ KeyReady(provider["pub"])

=============================================================================
